---- MODULE Spec2Model ----
(***************************************************************************)
(* Model of the lab2 play generator: main.rs, lab2/play.rs,                *)
(* lab2/scene_fragment.rs, lab2/player.rs, lab2/script_gen.rs.             *)
(*                                                                         *)
(* A text line is modelled by the sequence of its whitespace-separated     *)
(* tokens (what split_whitespace returns); the blank line is <<>>.         *)
(* A file is a record [st, lines]: st = "ok" with its lines, "noopen"      *)
(* when File::open fails, "readerr" when read_line fails.                  *)
(* Output is a sequence of events [k, s, n]: kind, text, number.           *)
(***************************************************************************)
EXTENDS Integers, Sequences, FiniteSets, TLC

VARIABLES
    args,                     \* env::args()
    script_filename,          \* local of main
    fs,                       \* the files the run can read
    WHINGE_MODE,              \* declarations.rs static flag
    pc,                       \* position in main / Play::recite / SceneFragment::recite
    fragments,                \* Play.fragments
    current_fragment_number,  \* local of Play::recite
    current_speaker,          \* local of SceneFragment::recite
    expected_line_number,     \* local of SceneFragment::recite
    out,                      \* standard output
    err,                      \* standard error
    code,                     \* the code main hands to ReturnWrapper
    spoken,                   \* history: <<player index, line number>> delivered in the running Scene
    mark,                     \* history: lengths of out and err when the running Scene's recite began
    calls                     \* history: the calls made on a Performer taken alone, with what they returned

vars == <<args, script_filename, fs, WHINGE_MODE, pc, fragments, current_fragment_number,
          current_speaker, expected_line_number, out, err, code, spoken, mark, calls>>

----------------------------------------------------------------------------
(* Bounds of the explored inputs *)

MaxScriptLines == 3
MaxConfigLines == 2
MaxDialogueLines == 2
MaxScenes == 3
MaxCalls == 3

----------------------------------------------------------------------------
(* Program constants *)

MIN_ARGS == 2
MAX_ARGS == 3
PROGRAM_NAME_INDEX == 0
CONFIG_FILE_INDEX == 1
VERBOSE_FLAG_INDEX == 2
PART_NAME_INDEX == 0
PART_FILENAME_INDEX == 1
SCENE_SCRIPT_INDEX == 0
SCENE_TITLE_START_INDEX == 1
CONFIG_FILENAME_INDEX == 0
CONFIG_EXTRA_TOKENS_START_INDEX == 1
FIRST_CHARACTER_LINE == 0
CHARACTER_LINE_STEP == 1
CONFIG_LINE_TOKEN_COUNT == 2
SCENE_SCRIPT_LENGTH == 2
CONFIG_SCRIPT_LENGTH == 1
FIRST_SCENE_FRAGMENT == 0
SCENE_FRAGMENT_STEP == 1

----------------------------------------------------------------------------
(* Events and small helpers.  Rust indexes from 0, TLA+ sequences from 1:  *)
(* v[i] of the source is v[i + 1] here.                                    *)

Ev(kind, text, num) == [k |-> kind, s |-> text, n |-> num]

Ok(v, o, e) == [ok |-> TRUE, code |-> "SUCCESS", val |-> v, out |-> o, err |-> e]

Err(c, o, e) == [ok |-> FALSE, code |-> c, val |-> <<>>, out |-> o, err |-> e]

\* let v = value; body(v)
With(value, Body(_)) == Body(value)

\* tokens.join(" ")
RECURSIVE JoinTokens(_)
JoinTokens(tokens) ==
    IF tokens = <<>> THEN ""
    ELSE IF Len(tokens) = 1 THEN tokens[1]
    ELSE tokens[1] \o " " \o JoinTokens(Tail(tokens))

\* str::parse::<usize> on the tokens the explored files use: decimal digits
\* parse to their value, anything else is an error.
Digits == <<"0", "1", "2", "3">>

IsUsize(token) == \E i \in DOMAIN Digits : Digits[i] = token

ParseUsize(token) == (CHOOSE i \in DOMAIN Digits : Digits[i] = token) - 1

\* Byte-wise order of String (derived Ord of the (usize, String) tuple) on the
\* dialogue texts the explored files use, listed in ascending order.
TextOrder == <<"", "Hello", "Hi">>

StrLess(s, t) ==
    (CHOOSE i \in DOMAIN TextOrder : TextOrder[i] = s)
        < (CHOOSE i \in DOMAIN TextOrder : TextOrder[i] = t)

----------------------------------------------------------------------------
(* script_gen.rs *)

\* grab_trimmed_file_lines: the lines of the file, or an error code
GrabTrimmedFileLines(files, filename) ==
    IF filename \notin DOMAIN files \/ files[filename].st = "noopen"
    THEN Err("FAILED_TO_OPEN_FILE", <<>>, <<Ev("error_open", filename, 0)>>)
    ELSE IF files[filename].st = "readerr"
    THEN Err("FAILED_TO_READ_LINE_FROM_FILE", <<>>, <<Ev("error_read", filename, 0)>>)
    ELSE Ok(files[filename].lines, <<>>, <<>>)

----------------------------------------------------------------------------
(* player.rs *)

NewPlayer(name) == [name |-> name, lines |-> <<>>, index |-> FIRST_CHARACTER_LINE]

\* Player::add_script_line: the player's lines and the warnings printed
AddScriptLine(lines, line, whinge) ==
    IF line = <<>> THEN [lines |-> lines, out |-> <<>>]
    ELSE IF Len(line) < 2 THEN [lines |-> lines, out |-> <<>>]   \* split_once finds no whitespace
    ELSE IF IsUsize(line[1])
    THEN [lines |-> Append(lines, <<ParseUsize(line[1]), JoinTokens(Tail(line))>>), out |-> <<>>]
    ELSE IF whinge
    THEN [lines |-> lines, out |-> <<Ev("warn_invalid_line_number", line[1], 0)>>]
    ELSE [lines |-> lines, out |-> <<>>]

\* Ord of (usize, String): by number, then by text
LineLess(a, b) == a[1] < b[1] \/ (a[1] = b[1] /\ StrLess(a[2], b[2]))

\* variant: the lines stay in the order of the file
SortLinesKeepsFileOrder(lines) == lines

\* Vec::sort (stable) of PlayLines: insert each element after the elements
\* that are not greater than it.
RECURSIVE SortLines(_)
SortLines(lines) ==
    IF lines = <<>> THEN <<>>
    ELSE LET sorted == SortLines(SubSeq(lines, 1, Len(lines) - 1))
             x == lines[Len(lines)]
             k == Cardinality({i \in DOMAIN sorted : ~LineLess(x, sorted[i])})
         IN SubSeq(sorted, 1, k) \o <<x>> \o SubSeq(sorted, k + 1, Len(sorted))

RECURSIVE AddScriptLines(_, _, _)
AddScriptLines(part_lines, whinge, acc) ==
    IF part_lines = <<>> THEN acc
    ELSE With(AddScriptLine(acc.lines, Head(part_lines), whinge), LAMBDA r :
             AddScriptLines(Tail(part_lines), whinge,
                            [lines |-> r.lines, out |-> acc.out \o r.out]))

\* Player::prepare
PlayerPrepare(files, player, part_filename, whinge) ==
    With(GrabTrimmedFileLines(files, part_filename), LAMBDA g :
        IF ~g.ok THEN Err(g.code, <<>>, g.err)
        ELSE With(AddScriptLines(g.val, whinge, [lines |-> player.lines, out |-> <<>>]), LAMBDA r :
                 Ok([player EXCEPT !.lines = SortLines(r.lines)], r.out, <<>>)))

\* Player::next_line: <<n>> for Some(n), <<>> for None
PlayerNextLine(player) ==
    IF ~(player.index < Len(player.lines)) THEN <<>>
    ELSE <<player.lines[player.index + 1][1]>>

\* variant: the line is printed and the index stays where it is
PlayerSpeakNoAdvance(player, speaker) ==
    IF ~(player.index < Len(player.lines))
    THEN [player |-> player, speaker |-> speaker, out |-> <<>>]
    ELSE [player |-> player,
          speaker |-> player.name,
          out |-> (IF player.name # speaker
                   THEN <<Ev("blank", "", 0), Ev("speaker", player.name, 0)>>
                   ELSE <<>>)
                  \o <<Ev("line", player.lines[player.index + 1][2], 0)>>]

\* variant: the header is printed and the token set before the index is looked at
PlayerSpeakHeaderFirst(player, speaker) ==
    IF ~(player.index < Len(player.lines))
    THEN [player |-> player, speaker |-> player.name,
          out |-> IF player.name # speaker
                  THEN <<Ev("blank", "", 0), Ev("speaker", player.name, 0)>>
                  ELSE <<>>]
    ELSE [player |-> [player EXCEPT !.index = @ + CHARACTER_LINE_STEP],
          speaker |-> player.name,
          out |-> (IF player.name # speaker
                   THEN <<Ev("blank", "", 0), Ev("speaker", player.name, 0)>>
                   ELSE <<>>)
                  \o <<Ev("line", player.lines[player.index + 1][2], 0)>>]

\* Player::speak: the player, the speaker token and the lines printed
PlayerSpeak(player, speaker) ==
    IF ~(player.index < Len(player.lines))
    THEN [player |-> player, speaker |-> speaker, out |-> <<>>]
    ELSE [player |-> [player EXCEPT !.index = @ + CHARACTER_LINE_STEP],
          speaker |-> player.name,
          out |-> (IF player.name # speaker
                   THEN <<Ev("blank", "", 0), Ev("speaker", player.name, 0)>>
                   ELSE <<>>)
                  \o <<Ev("line", player.lines[player.index + 1][2], 0)>>]

\* impl Ord for Player: cmp(a, b) = Less
PlayerLess(a, b) ==
    IF a.lines = <<>> /\ b.lines = <<>> THEN FALSE
    ELSE IF a.lines = <<>> THEN TRUE
    ELSE IF b.lines = <<>> THEN FALSE
    ELSE a.lines[FIRST_CHARACTER_LINE + 1][1] < b.lines[FIRST_CHARACTER_LINE + 1][1]

----------------------------------------------------------------------------
(* scene_fragment.rs *)

NewSceneFragment(title) == [title |-> title, players |-> <<>>]

\* SceneFragment::add_config: the config and the warnings printed
SceneAddConfig(line, config, whinge) ==
    LET tokens == line
        warn == IF Len(tokens) < CONFIG_LINE_TOKEN_COUNT /\ whinge
                THEN <<Ev("warn_too_few_tokens", JoinTokens(line), Len(tokens))>>
                ELSE IF Len(tokens) > CONFIG_LINE_TOKEN_COUNT /\ whinge
                THEN <<Ev("warn_too_many_tokens", JoinTokens(line), Len(tokens))>>
                ELSE <<>>
    IN [config |-> IF Len(tokens) >= CONFIG_LINE_TOKEN_COUNT
                   THEN Append(config, <<tokens[PART_NAME_INDEX + 1], tokens[PART_FILENAME_INDEX + 1]>>)
                   ELSE config,
        err |-> warn]

RECURSIVE SceneAddConfigs(_, _, _)
SceneAddConfigs(config_lines, whinge, acc) ==
    IF config_lines = <<>> THEN acc
    ELSE With(SceneAddConfig(Head(config_lines), acc.config, whinge), LAMBDA r :
             SceneAddConfigs(Tail(config_lines), whinge,
                             [config |-> r.config, err |-> acc.err \o r.err]))

\* SceneFragment::read_config
SceneReadConfig(files, config_filename, whinge) ==
    With(GrabTrimmedFileLines(files, config_filename), LAMBDA g :
        IF ~g.ok THEN Err(g.code, <<>>, g.err)
        ELSE IF g.val = <<>>
        THEN Err("CONFIG_PARSING_ERROR", <<>>, <<Ev("error_no_lines", config_filename, 0)>>)
        ELSE With(SceneAddConfigs(g.val, whinge, [config |-> <<>>, err |-> <<>>]), LAMBDA r :
                 Ok(r.config, <<>>, r.err)))

\* variant: a player whose prepare fails is left out and the loop goes on
RECURSIVE SceneProcessConfigSkipsFailure(_, _, _, _)
SceneProcessConfigSkipsFailure(files, config, whinge, acc) ==
    IF config = <<>> THEN acc
    ELSE With(PlayerPrepare(files, NewPlayer(Head(config)[1]), Head(config)[2], whinge), LAMBDA p :
             IF ~p.ok THEN SceneProcessConfigSkipsFailure(files, Tail(config), whinge, acc)
             ELSE SceneProcessConfigSkipsFailure(files, Tail(config), whinge,
                      Ok(Append(acc.val, p.val), acc.out \o p.out, acc.err \o p.err)))

\* SceneFragment::process_config: val is the players vector
RECURSIVE SceneProcessConfig(_, _, _, _)
SceneProcessConfig(files, config, whinge, acc) ==
    IF config = <<>> THEN acc
    ELSE With(PlayerPrepare(files, NewPlayer(Head(config)[1]), Head(config)[2], whinge), LAMBDA p :
             IF ~p.ok THEN Err(p.code, acc.out \o p.out, acc.err \o p.err)
             ELSE SceneProcessConfig(files, Tail(config), whinge,
                      Ok(Append(acc.val, p.val), acc.out \o p.out, acc.err \o p.err)))

\* variant: a player placed before others takes the place of the next one
RECURSIVE SortPlayersOverwrites(_)
SortPlayersOverwrites(players) ==
    IF players = <<>> THEN <<>>
    ELSE LET sorted == SortPlayersOverwrites(SubSeq(players, 1, Len(players) - 1))
             x == players[Len(players)]
             k == Cardinality({i \in DOMAIN sorted : ~PlayerLess(x, sorted[i])})
         IN SubSeq(sorted, 1, k) \o <<x>> \o SubSeq(sorted, k + 2, Len(sorted))

\* Vec::sort (stable) of the players by impl Ord for Player
RECURSIVE SortPlayers(_)
SortPlayers(players) ==
    IF players = <<>> THEN <<>>
    ELSE LET sorted == SortPlayers(SubSeq(players, 1, Len(players) - 1))
             x == players[Len(players)]
             k == Cardinality({i \in DOMAIN sorted : ~PlayerLess(x, sorted[i])})
         IN SubSeq(sorted, 1, k) \o <<x>> \o SubSeq(sorted, k + 1, Len(sorted))

\* SceneFragment::prepare: val is the prepared fragment
ScenePrepare(files, fragment, config_filename, whinge) ==
    With(SceneReadConfig(files, config_filename, whinge), LAMBDA c :
        IF ~c.ok THEN Err(c.code, c.out, c.err)
        ELSE With(SceneProcessConfig(files, c.val, whinge, Ok(fragment.players, <<>>, <<>>)), LAMBDA p :
                 IF ~p.ok THEN Err(p.code, c.out \o p.out, c.err \o p.err)
                 ELSE Ok([fragment EXCEPT !.players = SortPlayers(p.val)],
                         c.out \o p.out, c.err \o p.err)))

\* SceneFragment::has_scene_title.  A title is a join of non-empty tokens by
\* single spaces, so trimming it leaves it empty exactly when it is "".
HasSceneTitle(fragment) == ~(fragment.title = "")

\* SceneFragment::print_scene_title
PrintSceneTitle(fragment, is_first_scene) ==
    IF HasSceneTitle(fragment)
    THEN (IF ~is_first_scene THEN <<Ev("blank", "", 0)>> ELSE <<>>)
         \o <<Ev("title", fragment.title, 0), Ev("blank", "", 0)>>
    ELSE <<>>

\* previous.players.iter().any(|p| p.get_character_name() == name)
InCast(fragment, name) == \E i \in DOMAIN fragment.players : fragment.players[i].name = name

Reverse(s) == [i \in 1..Len(s) |-> s[Len(s) + 1 - i]]

\* for player in players: println unless the player's name is in the other
\* fragment's cast
RECURSIVE AnnounceAbsent(_, _, _)
AnnounceAbsent(kind, players, other) ==
    IF players = <<>> THEN <<>>
    ELSE (IF ~InCast(other, Head(players).name)
          THEN <<Ev(kind, Head(players).name, 0)>>
          ELSE <<>>)
         \o AnnounceAbsent(kind, Tail(players), other)

\* for player in players: println
AnnounceAll(kind, players) == [i \in 1..Len(players) |-> Ev(kind, players[i].name, 0)]

\* variant: every member of the cast is announced
SceneEnterEveryone(fragment, previous) ==
    PrintSceneTitle(fragment, FALSE) \o AnnounceAll("enter", fragment.players)

\* SceneFragment::enter
SceneEnter(fragment, previous) ==
    PrintSceneTitle(fragment, FALSE) \o AnnounceAbsent("enter", fragment.players, previous)

\* SceneFragment::enter_all
SceneEnterAll(fragment) ==
    PrintSceneTitle(fragment, TRUE) \o AnnounceAll("enter", fragment.players)

\* variant: the cast is walked forwards
SceneExitForwards(fragment, next) == AnnounceAbsent("exit", fragment.players, next)

\* SceneFragment::exit
SceneExit(fragment, next) == AnnounceAbsent("exit", Reverse(fragment.players), next)

\* SceneFragment::exit_all
SceneExitAll(fragment) == AnnounceAll("exit", Reverse(fragment.players))

\* The scan of SceneFragment::recite: the index of the player to speak
\* (0-based, as next_player_index), or -1 for None.  A later player replaces
\* the choice only when its line number is strictly smaller.
\* variant: a later player with an equal line number replaces the choice
RECURSIVE ScanPlayersLastTie(_, _, _)
ScanPlayersLastTie(players, index, best) ==
    IF index >= Len(players) THEN best
    ELSE LET n == PlayerNextLine(players[index + 1]) IN
         IF n # <<>> /\ (best = -1 \/ n[1] <= PlayerNextLine(players[best + 1])[1])
         THEN ScanPlayersLastTie(players, index + 1, index)
         ELSE ScanPlayersLastTie(players, index + 1, best)

RECURSIVE ScanPlayers(_, _, _)
ScanPlayers(players, index, best) ==
    IF index >= Len(players) THEN best
    ELSE LET n == PlayerNextLine(players[index + 1]) IN
         IF n # <<>> /\ (best = -1 \/ n[1] < PlayerNextLine(players[best + 1])[1])
         THEN ScanPlayers(players, index + 1, index)
         ELSE ScanPlayers(players, index + 1, best)

\* variant: the scan leaves out the last player
NextPlayerIndexSkipLast(players) == ScanPlayers(SubSeq(players, 1, Len(players) - 1), 0, -1)

NextPlayerIndex(players) == ScanPlayers(players, 0, -1)

\* SceneFragment::recite: what the loop prints for a cast, from a speaker token
RECURSIVE SceneReciteOutput(_, _)
SceneReciteOutput(players, speaker) ==
    With(NextPlayerIndex(players), LAMBDA player_index :
        IF player_index = -1 THEN <<>>
        ELSE With(PlayerSpeak(players[player_index + 1], speaker), LAMBDA r :
                 r.out \o SceneReciteOutput([players EXCEPT ![player_index + 1] = r.player],
                                            r.speaker)))

\* variant: the range starts one too late and ends one too late
MissingWarningsShifted(expected, actual) ==
    [i \in 1..(actual - expected) |-> Ev("warn_missing_line", "", expected + i)]

\* expected_line_number..actual_line_number as warnings
MissingWarnings(expected, actual) ==
    [i \in 1..(actual - expected) |-> Ev("warn_missing_line", "", expected + i - 1)]

----------------------------------------------------------------------------
(* play.rs *)

\* Play::add_config: the script config and the warnings printed.  An entry
\* of the config is <<is_title, text>>.
PlayAddConfig(line, config, whinge) ==
    LET tokens == line IN
    IF line = <<>> THEN [config |-> config, err |-> <<>>]
    ELSE IF tokens[SCENE_SCRIPT_INDEX + 1] = "[scene]"
    THEN IF Len(tokens) < SCENE_SCRIPT_LENGTH /\ whinge
         THEN [config |-> config, err |-> <<Ev("warn_scene_without_title", "", 0)>>]
         ELSE [config |-> Append(config,
                   <<TRUE, JoinTokens(SubSeq(tokens, SCENE_TITLE_START_INDEX + 1, Len(tokens)))>>),
               err |-> <<>>]
    ELSE [config |-> Append(config, <<FALSE, tokens[CONFIG_FILENAME_INDEX + 1]>>),
          err |-> IF Len(tokens) > CONFIG_SCRIPT_LENGTH /\ whinge
                  THEN <<Ev("warn_extra_tokens",
                            JoinTokens(SubSeq(tokens, CONFIG_EXTRA_TOKENS_START_INDEX + 1, Len(tokens))),
                            0)>>
                  ELSE <<>>]

RECURSIVE PlayAddConfigs(_, _, _)
PlayAddConfigs(script_lines, whinge, acc) ==
    IF script_lines = <<>> THEN acc
    ELSE With(PlayAddConfig(Head(script_lines), acc.config, whinge), LAMBDA r :
             PlayAddConfigs(Tail(script_lines), whinge,
                            [config |-> r.config, err |-> acc.err \o r.err]))

\* Play::read_config
PlayReadConfig(files, script_file, whinge) ==
    With(GrabTrimmedFileLines(files, script_file), LAMBDA g :
        IF ~g.ok THEN Err(g.code, <<>>, g.err)
        ELSE IF g.val = <<>>
        THEN Err("SCRIPT_PARSING_ERROR", <<>>, <<Ev("error_no_lines", script_file, 0)>>)
        ELSE With(PlayAddConfigs(g.val, whinge, [config |-> <<>>, err |-> <<>>]), LAMBDA r :
                 Ok(r.config, <<>>, r.err)))

\* variant: the title is not cleared after a fragment is made
RECURSIVE PlayProcessConfigKeepsTitle(_, _, _, _, _)
PlayProcessConfigKeepsTitle(files, config, title, whinge, acc) ==
    IF config = <<>> THEN acc
    ELSE IF Head(config)[1]
    THEN PlayProcessConfigKeepsTitle(files, Tail(config), Head(config)[2], whinge, acc)
    ELSE With(ScenePrepare(files, NewSceneFragment(title), Head(config)[2], whinge), LAMBDA f :
             IF ~f.ok THEN Err(f.code, acc.out \o f.out, acc.err \o f.err)
             ELSE PlayProcessConfigKeepsTitle(files, Tail(config), title, whinge,
                      Ok(Append(acc.val, f.val), acc.out \o f.out, acc.err \o f.err)))

\* Play::process_config: val is the fragments vector
RECURSIVE PlayProcessConfig(_, _, _, _, _)
PlayProcessConfig(files, config, title, whinge, acc) ==
    IF config = <<>> THEN acc
    ELSE IF Head(config)[1]
    THEN PlayProcessConfig(files, Tail(config), Head(config)[2], whinge, acc)
    ELSE With(ScenePrepare(files, NewSceneFragment(title), Head(config)[2], whinge), LAMBDA f :
             IF ~f.ok THEN Err(f.code, acc.out \o f.out, acc.err \o f.err)
             ELSE PlayProcessConfig(files, Tail(config), "", whinge,
                      Ok(Append(acc.val, f.val), acc.out \o f.out, acc.err \o f.err)))

\* variant: the title of the first fragment is not checked
PlayPrepareNoTitleCheck(files, script_file, whinge) ==
    With(PlayReadConfig(files, script_file, whinge), LAMBDA c :
        IF ~c.ok THEN Err(c.code, c.out, c.err)
        ELSE With(PlayProcessConfig(files, c.val, "", whinge, Ok(<<>>, <<>>, c.err)), LAMBDA p :
                 IF ~p.ok THEN Err(p.code, p.out, p.err)
                 ELSE IF p.val = <<>>
                 THEN Err("SCRIPT_PARSING_ERROR", p.out,
                          Append(p.err, Ev("error_no_fragments", "", 0)))
                 ELSE Ok(p.val, p.out, p.err)))

\* Play::prepare: val is the fragments vector
PlayPrepare(files, script_file, whinge) ==
    With(PlayReadConfig(files, script_file, whinge), LAMBDA c :
        IF ~c.ok THEN Err(c.code, c.out, c.err)
        ELSE With(PlayProcessConfig(files, c.val, "", whinge, Ok(<<>>, <<>>, c.err)), LAMBDA p :
                 IF ~p.ok THEN Err(p.code, p.out, p.err)
                 ELSE IF p.val = <<>>
                 THEN Err("SCRIPT_PARSING_ERROR", p.out,
                          Append(p.err, Ev("error_no_fragments", "", 0)))
                 ELSE IF ~HasSceneTitle(p.val[FIRST_SCENE_FRAGMENT + 1])
                 THEN Err("SCRIPT_PARSING_ERROR", p.out,
                          Append(p.err, Ev("error_first_title", "", 0)))
                 ELSE Ok(p.val, p.out, p.err)))

\* Play::recite: enter_all for the first fragment, enter(previous) otherwise
PlayEnterOutput(frags, n) ==
    IF n = FIRST_SCENE_FRAGMENT
    THEN SceneEnterAll(frags[n + 1])
    ELSE SceneEnter(frags[n + 1], frags[n - SCENE_FRAGMENT_STEP + 1])

\* variant: the last fragment is compared with a fragment that does not exist
\* ahead of it, so the one before the last leaves with exit_all
PlayExitOutputEarlyExitAll(frags, n) ==
    IF n >= Len(frags) - 2
    THEN SceneExitAll(frags[n + 1])
    ELSE SceneExit(frags[n + 1], frags[n + SCENE_FRAGMENT_STEP + 1])

\* Play::recite: exit_all for the last fragment, exit(next) otherwise
PlayExitOutput(frags, n) ==
    IF n = Len(frags) - 1
    THEN SceneExitAll(frags[n + 1])
    ELSE SceneExit(frags[n + 1], frags[n + SCENE_FRAGMENT_STEP + 1])

\* variant: the three comparisons form one if / else-if chain, so a line that
\* follows a gap does not advance the counter
CheckLineNumberChained(expected, actual, whinge) ==
    IF actual > expected
    THEN [expected |-> actual,
          err |-> IF whinge THEN MissingWarnings(expected, actual) ELSE <<>>]
    ELSE IF actual = expected
    THEN [expected |-> expected + CHARACTER_LINE_STEP, err |-> <<>>]
    ELSE [expected |-> expected,
          err |-> IF whinge THEN <<Ev("warn_duplicate_line", "", actual)>> ELSE <<>>]

\* variant: after a gap the counter is the line number, not one more
CheckLineNumberStopsAtGap(expected, actual, whinge) ==
    LET missing == IF actual > expected /\ whinge
                   THEN MissingWarnings(expected, actual) ELSE <<>>
    IN IF actual > expected
       THEN [expected |-> actual, err |-> missing]
       ELSE IF actual = expected
       THEN [expected |-> expected + CHARACTER_LINE_STEP, err |-> missing]
       ELSE IF whinge
       THEN [expected |-> expected, err |-> Append(missing, Ev("warn_duplicate_line", "", actual))]
       ELSE [expected |-> expected, err |-> missing]

\* Lines 211-227 of SceneFragment::recite: the new expected_line_number and
\* the warnings printed for the selected line number
CheckLineNumber(expected, actual, whinge) ==
    LET missing == IF actual > expected /\ whinge
                   THEN MissingWarnings(expected, actual) ELSE <<>>
        e1 == IF actual > expected THEN actual ELSE expected
    IN IF actual = e1
       THEN [expected |-> e1 + CHARACTER_LINE_STEP, err |-> missing]
       ELSE IF actual < e1 /\ whinge
       THEN [expected |-> e1, err |-> Append(missing, Ev("warn_duplicate_line", "", actual))]
       ELSE [expected |-> e1, err |-> missing]

----------------------------------------------------------------------------
(* The explored inputs *)

File(lines) == [st |-> "ok", lines |-> lines]

NoOpen == [st |-> "noopen", lines |-> <<>>]

ReadErr == [st |-> "readerr", lines |-> <<>>]

SeqsUpTo(S, n) == UNION {[1..k -> S] : k \in 0..n}

ScriptLineSet ==
    { <<>>, <<"[scene]">>, <<"[scene]", "A">>, <<"[scene]", "B", "C">>,
      <<"c1">>, <<"c2">>, <<"c1", "extra">>, <<"nofile">> }

ConfigLineSet ==
    { <<>>, <<"Ann">>, <<"Ann", "d1">>, <<"Bob", "d2">>, <<"Cy", "d1">>,
      <<"Bob", "d1", "extra">>, <<"Ann", "nofile">>, <<"Dan", "d4">> }

DialogueLineSet ==
    { <<>>, <<"0", "Hi">>, <<"1", "Hi">>, <<"1", "Hello">>, <<"2", "Hi">>,
      <<"x", "Hi">>, <<"3">> }

OtherParts ==
    { <<>>,
      << <<"0", "Hi">> >>,
      << <<"1", "Hi">>, <<"2", "Hello">> >>,
      << <<"0", "Hello">>, <<"2", "Hi">> >>,
      << <<"2", "Hi">>, <<"1", "Hi">>, <<"1", "Hello">> >>,
      << <<"3", "Hi">> >> }

BaseFiles ==
    [ play |-> File(<< <<"[scene]", "A", "B">>, <<"c1">>, <<"c2">> >>),
      c1 |-> File(<< <<"Ann", "d1">>, <<"Bob", "d2">> >>),
      c2 |-> File(<< <<"Bob", "d2">>, <<"Cy", "d3">>, <<"Dan", "d4">> >>),
      c3 |-> File(<< <<"Ann", "d1">>, <<"Bob", "d2">>, <<"Cy", "d3">> >>),
      d1 |-> File(<< <<"0", "Hi">>, <<"2", "Hello">> >>),
      d2 |-> File(<< <<"1", "Hello">>, <<"2", "Hi">> >>),
      d3 |-> File(<< <<"1", "Hi">>, <<"3", "Hi">> >>),
      d4 |-> File(<<>>) ]

GoodArgs == { <<"prog", "play">>, <<"prog", "play", "whinge">> }

BadArgs == { <<"prog">>, <<"prog", "play", "loud">>, <<"prog", "play", "whinge", "x">> }

\* every script of at most MaxScriptLines lines, over the base files
ScriptInputs ==
    { [BaseFiles EXCEPT !.play = f] :
        f \in {File(l) : l \in SeqsUpTo(ScriptLineSet, MaxScriptLines)} \cup {NoOpen, ReadErr} }

\* every run of at most MaxScenes Scenes over the base configuration files,
\* after two title markers
SceneInputs ==
    { [BaseFiles EXCEPT !.play = File(<< <<"[scene]", "A">>, <<"[scene]", "B", "C">> >> \o refs)] :
        refs \in SeqsUpTo({<<"c1">>, <<"c2">>, <<"c3">>}, MaxScenes) }

\* every configuration file c1 of at most MaxConfigLines lines, before or
\* after the base Scene c2
ConfigInputs ==
    { [BaseFiles EXCEPT !.play = File(s), !.c1 = f] :
        s \in { << <<"[scene]", "A">>, <<"c1">>, <<"c2">> >>,
                << <<"[scene]", "A">>, <<"c2">>, <<"c1">> >> },
        f \in {File(l) : l \in SeqsUpTo(ConfigLineSet, MaxConfigLines)} \cup {NoOpen} }

\* every dialogue file d1 of at most MaxDialogueLines lines, in a Scene of
\* three players whose second part is one of OtherParts
DialogueInputs ==
    { [BaseFiles EXCEPT !.play = File(<< <<"[scene]", "A">>, <<"c3">> >>), !.d1 = f, !.d2 = File(g)] :
        f \in {File(l) : l \in SeqsUpTo(DialogueLineSet, MaxDialogueLines)} \cup {NoOpen},
        g \in OtherParts }

----------------------------------------------------------------------------
(* The run *)

Init ==
    /\ \/ args \in GoodArgs /\ fs \in ScriptInputs \cup SceneInputs \cup ConfigInputs \cup DialogueInputs
       \/ args \in BadArgs /\ fs = BaseFiles
    /\ script_filename = ""
    /\ WHINGE_MODE = FALSE
    /\ pc = "main"
    /\ fragments = <<>>
    /\ current_fragment_number = FIRST_SCENE_FRAGMENT
    /\ current_speaker = ""
    /\ expected_line_number = 0
    /\ out = <<>>
    /\ err = <<>>
    /\ code = "NONE"
    /\ spoken = <<>>
    /\ mark = [out |-> 0, err |-> 0]
    /\ calls = <<>>

\* main.rs parse_args, and main's return on its error
ParseArgs ==
    /\ pc = "main"
    /\ IF Len(args) < MIN_ARGS \/ Len(args) > MAX_ARGS
          \/ (Len(args) = MAX_ARGS /\ args[VERBOSE_FLAG_INDEX + 1] # "whinge")
       THEN /\ out' = Append(out, Ev("usage", args[PROGRAM_NAME_INDEX + 1], 0))
            /\ code' = "BAD_COMMAND_LINE_ERROR"
            /\ pc' = "exit"
            /\ UNCHANGED <<script_filename, WHINGE_MODE>>
       ELSE /\ script_filename' = args[CONFIG_FILE_INDEX + 1]
            /\ WHINGE_MODE' = (Len(args) = MAX_ARGS /\ args[VERBOSE_FLAG_INDEX + 1] = "whinge")
            /\ pc' = "prepare"
            /\ UNCHANGED <<out, code>>
    /\ UNCHANGED <<args, calls, fs, fragments, current_fragment_number, current_speaker,
                   expected_line_number, err, spoken, mark>>

\* main's call of Play::prepare, and main's return on its error
Prepare ==
    /\ pc = "prepare"
    /\ \E r \in {PlayPrepare(fs, script_filename, WHINGE_MODE)} :
          /\ fragments' = r.val
          /\ out' = out \o r.out
          /\ err' = err \o r.err
          /\ IF r.ok THEN pc' = "recite" /\ code' = code
                     ELSE pc' = "exit" /\ code' = r.code
    /\ UNCHANGED <<args, calls, script_filename, fs, WHINGE_MODE, current_fragment_number,
                   current_speaker, expected_line_number, spoken, mark>>

\* Play::recite, up to its loop
PlayReciteBegin ==
    /\ pc = "recite"
    /\ current_fragment_number' = FIRST_SCENE_FRAGMENT
    /\ pc' = "play_loop"
    /\ UNCHANGED <<args, calls, script_filename, fs, WHINGE_MODE, fragments, current_speaker,
                   expected_line_number, out, err, code, spoken, mark>>

\* Play::recite: the entrance of the current fragment
PlayEnter ==
    /\ pc = "play_loop"
    /\ current_fragment_number < Len(fragments)
    /\ out' = out \o PlayEnterOutput(fragments, current_fragment_number)
    /\ pc' = "scene_begin"
    /\ UNCHANGED <<args, calls, script_filename, fs, WHINGE_MODE, fragments, current_fragment_number,
                   current_speaker, expected_line_number, err, code, spoken, mark>>

\* variant: the speaker token is not a local of recite and keeps its value
SceneReciteBeginKeepsSpeaker ==
    /\ pc = "scene_begin"
    /\ expected_line_number' = 0
    /\ spoken' = <<>>
    /\ mark' = [out |-> Len(out), err |-> Len(err)]
    /\ pc' = "scene_loop"
    /\ UNCHANGED <<args, calls, script_filename, fs, WHINGE_MODE, fragments, current_fragment_number,
                   current_speaker, out, err, code>>

\* SceneFragment::recite, up to its loop
SceneReciteBegin ==
    /\ pc = "scene_begin"
    /\ current_speaker' = ""
    /\ expected_line_number' = 0
    /\ spoken' = <<>>
    /\ mark' = [out |-> Len(out), err |-> Len(err)]
    /\ pc' = "scene_loop"
    /\ UNCHANGED <<args, calls, script_filename, fs, WHINGE_MODE, fragments, current_fragment_number,
                   out, err, code>>

\* SceneFragment::recite: one iteration of the loop that finds a player
SceneReciteStep ==
    /\ pc = "scene_loop"
    /\ LET players == fragments[current_fragment_number + 1].players
           player_index == NextPlayerIndex(players)
       IN /\ player_index # -1
          /\ LET actual_line_number == PlayerNextLine(players[player_index + 1])[1]
                 c == CheckLineNumber(expected_line_number, actual_line_number, WHINGE_MODE)
                 r == PlayerSpeak(players[player_index + 1], current_speaker)
             IN /\ expected_line_number' = c.expected
                /\ err' = err \o c.err
                /\ fragments' = [fragments EXCEPT
                       ![current_fragment_number + 1].players[player_index + 1] = r.player]
                /\ current_speaker' = r.speaker
                /\ out' = out \o r.out
                /\ spoken' = Append(spoken, <<player_index, actual_line_number>>)
    /\ UNCHANGED <<args, calls, script_filename, fs, WHINGE_MODE, pc, current_fragment_number,
                   code, mark>>

\* SceneFragment::recite: the iteration that finds no player and breaks
SceneReciteBreak ==
    /\ pc = "scene_loop"
    /\ NextPlayerIndex(fragments[current_fragment_number + 1].players) = -1
    /\ pc' = "separator"
    /\ UNCHANGED <<args, calls, script_filename, fs, WHINGE_MODE, fragments, current_fragment_number,
                   current_speaker, expected_line_number, out, err, code, spoken, mark>>

\* Play::recite: the println after the fragment's recite
PlaySeparator ==
    /\ pc = "separator"
    /\ out' = Append(out, Ev("blank", "", 0))
    /\ pc' = "play_exit"
    /\ UNCHANGED <<args, calls, script_filename, fs, WHINGE_MODE, fragments, current_fragment_number,
                   current_speaker, expected_line_number, err, code, spoken, mark>>

\* Play::recite: the exit of the current fragment and the step to the next
PlayExit ==
    /\ pc = "play_exit"
    /\ out' = out \o PlayExitOutput(fragments, current_fragment_number)
    /\ current_fragment_number' = current_fragment_number + SCENE_FRAGMENT_STEP
    /\ pc' = "play_loop"
    /\ UNCHANGED <<args, calls, script_filename, fs, WHINGE_MODE, fragments, current_speaker,
                   expected_line_number, err, code, spoken, mark>>

\* Play::recite returns and main returns SUCCESS
PlayReciteDone ==
    /\ pc = "play_loop"
    /\ ~(current_fragment_number < Len(fragments))
    /\ code' = "SUCCESS"
    /\ pc' = "exit"
    /\ UNCHANGED <<args, calls, script_filename, fs, WHINGE_MODE, fragments, current_fragment_number,
                   current_speaker, expected_line_number, out, err, spoken, mark>>

Next ==
    \/ ParseArgs
    \/ Prepare
    \/ PlayReciteBegin
    \/ PlayEnter
    \/ SceneReciteBegin
    \/ SceneReciteStep
    \/ SceneReciteBreak
    \/ PlaySeparator
    \/ PlayExit
    \/ PlayReciteDone

Spec == Init /\ [][Next]_vars

----------------------------------------------------------------------------
(* A Performer under any sequence of calls *)

\* every dialogue file d1 of at most MaxDialogueLines lines
PlayerInputs ==
    { [BaseFiles EXCEPT !.d1 = File(l)] : l \in SeqsUpTo(DialogueLineSet, MaxDialogueLines) }

\* a Player after new and prepare, held by a caller with some speaker token
PlayerInit ==
    /\ args = <<"prog", "play">>
    /\ fs \in PlayerInputs
    /\ script_filename = "play"
    /\ WHINGE_MODE = FALSE
    /\ pc = "player"
    /\ fragments = <<[NewSceneFragment("") EXCEPT
                         !.players = <<PlayerPrepare(fs, NewPlayer("Ann"), "d1", FALSE).val>>]>>
    /\ current_fragment_number = FIRST_SCENE_FRAGMENT
    /\ current_speaker \in {"", "Ann", "Bob"}
    /\ expected_line_number = 0
    /\ out = <<>>
    /\ err = <<>>
    /\ code = "NONE"
    /\ spoken = <<>>
    /\ mark = [out |-> 0, err |-> 0]
    /\ calls = <<>>

\* Player::speak called on the player with the caller's token
CallSpeak ==
    /\ pc = "player"
    /\ Len(calls) < MaxCalls
    /\ LET r == PlayerSpeak(fragments[1].players[1], current_speaker)
       IN /\ fragments' = [fragments EXCEPT ![1].players[1] = r.player]
          /\ current_speaker' = r.speaker
          /\ out' = out \o r.out
    /\ calls' = Append(calls, [op |-> "speak", ret |-> <<>>])
    /\ UNCHANGED <<args, script_filename, fs, WHINGE_MODE, pc, current_fragment_number,
                   expected_line_number, err, code, spoken, mark>>

\* Player::next_line called on the player: it takes &self and returns an Option
CallNextLine ==
    /\ pc = "player"
    /\ Len(calls) < MaxCalls
    /\ calls' = Append(calls, [op |-> "next_line", ret |-> PlayerNextLine(fragments[1].players[1])])
    /\ UNCHANGED <<args, script_filename, fs, WHINGE_MODE, pc, fragments, current_fragment_number,
                   current_speaker, expected_line_number, out, err, code, spoken, mark>>

PlayerNext ==
    \/ CallSpeak
    \/ CallNextLine

PlayerSpec == PlayerInit /\ [][PlayerNext]_vars

----------------------------------------------------------------------------
(* Vocabulary of the properties *)

\* the Scene being recited and its cast
ThisScene == fragments[current_fragment_number + 1]

Cast == ThisScene.players

\* what the running Scene's recite has written so far
SceneOut == SubSeq(out, mark.out + 1, Len(out))

SceneErr == SubSeq(err, mark.err + 1, Len(err))

OfKind(events, kind) == SelectSeq(events, LAMBDA e : e.k = kind)

TextsOf(events) == [i \in DOMAIN events |-> events[i].s]

NumbersOf(events) == [i \in DOMAIN events |-> events[i].n]

NamesOfCast(players) == [i \in DOMAIN players |-> players[i].name]

NameSet(players) == {players[i].name : i \in DOMAIN players}

LineNumbers(player) == [k \in DOMAIN player.lines |-> player.lines[k][1]]

RECURSIVE SumOfLines(_)
SumOfLines(players) ==
    IF players = <<>> THEN 0 ELSE Len(Head(players).lines) + SumOfLines(Tail(players))

\* the line numbers some member of the cast owns
Owned(players) == UNION {{players[i].lines[k][1] : k \in DOMAIN players[i].lines} : i \in DOMAIN players}

\* the line numbers the cast has delivered so far
Delivered(players) == UNION {{players[i].lines[k][1] : k \in 1..players[i].index} : i \in DOMAIN players}

SetMax(S) == CHOOSE m \in S : \A x \in S : x <= m

\* the members of a finite set of numbers in ascending order
RECURSIVE Ascending(_)
Ascending(S) ==
    IF S = {} THEN <<>>
    ELSE LET m == SetMax(S) IN Append(Ascending(S \ {m}), m)

\* the member of the cast whose cursor a step of recite advanced
Speaker(before, after) == CHOOSE i \in DOMAIN before : after[i].index = before[i].index + 1

DeliverStep == pc = "scene_loop" /\ pc' = "scene_loop"

----------------------------------------------------------------------------
(* C1: when a Scene's recite returns, every Performer's cursor equals its  *)
(* number of entries, each Performer has delivered its entries once and in  *)
(* order, and the dialogue lines printed are as many as the cast's entries. *)

C1_ReciteDeliversEveryLineOnce ==
    pc = "separator" =>
        /\ \A i \in DOMAIN Cast : Cast[i].index = Len(Cast[i].lines)
        /\ \A i \in DOMAIN Cast :
               [k \in DOMAIN SelectSeq(spoken, LAMBDA e : e[1] = i - 1) |->
                    SelectSeq(spoken, LAMBDA e : e[1] = i - 1)[k][2]] = LineNumbers(Cast[i])
        /\ Len(OfKind(SceneOut, "line")) = SumOfLines(Cast)

C1_Witness ==
    /\ pc = "separator"
    /\ Len(OfKind(SceneOut, "line")) >= 4
    /\ Cardinality({i \in DOMAIN Cast : Cast[i].lines # <<>>}) >= 2

(* C2: the Performer that speaks in an iteration holds the smallest pending *)
(* line number of the cast, and is the earliest such Performer in cast      *)
(* enumeration order.                                                       *)

C2_SmallestPendingEarliestSpeaks ==
    [][DeliverStep =>
        LET i == Speaker(Cast, Cast')
            n == PlayerNextLine(Cast[i])
        IN /\ n # <<>>
           /\ \A j \in DOMAIN Cast :
                  PlayerNextLine(Cast[j]) # <<>> => n[1] <= PlayerNextLine(Cast[j])[1]
           /\ \A j \in 1..(i - 1) :
                  PlayerNextLine(Cast[j]) # <<>> => n[1] < PlayerNextLine(Cast[j])[1]
           /\ \A j \in DOMAIN Cast : j # i => Cast'[j] = Cast[j]]_vars

\* a line was delivered while a later Performer was pending on the same number
C2_Witness ==
    /\ pc = "scene_loop"
    /\ spoken # <<>>
    /\ \E j \in DOMAIN Cast :
           /\ j - 1 > spoken[Len(spoken)][1]
           /\ PlayerNextLine(Cast[j]) = <<spoken[Len(spoken)][2]>>

\* the entries of a dialogue file, in file order
EntriesOf(file) == AddScriptLines(file.lines, FALSE, [lines |-> <<>>, out |-> <<>>]).lines

\* the stable sort by line number alone
RECURSIVE StableByNumber(_)
StableByNumber(entries) ==
    IF entries = <<>> THEN <<>>
    ELSE LET sorted == StableByNumber(SubSeq(entries, 1, Len(entries) - 1))
             x == entries[Len(entries)]
             k == Cardinality({i \in DOMAIN sorted : sorted[i][1] <= x[1]})
         IN SubSeq(sorted, 1, k) \o <<x>> \o SubSeq(sorted, k + 1, Len(sorted))

\* the configuration files of the Scenes, in script order
SceneFiles ==
    LET c == PlayReadConfig(fs, script_filename, WHINGE_MODE).val
        refs == SelectSeq(c, LAMBDA entry : ~entry[1])
    IN [i \in DOMAIN refs |-> refs[i][2]]

\* the (name, dialogue file) pairs of the i-th Scene
SceneConfig(i) == SceneReadConfig(fs, SceneFiles[i], WHINGE_MODE).val

Assembled == pc \in {"recite", "play_loop"} /\ current_fragment_number = FIRST_SCENE_FRAGMENT

(* C3: after Player::prepare the entries of every Performer are ascending   *)
(* by line number, and entries that share a line number keep the order they *)
(* have in the dialogue file, whatever their texts.                         *)

C3_PrepareSortIsStable ==
    Assembled =>
        \A i \in DOMAIN fragments : \A j \in DOMAIN fragments[i].players :
            LET player == fragments[i].players[j] IN
            /\ \A k \in 1..(Len(player.lines) - 1) : player.lines[k][1] <= player.lines[k + 1][1]
            /\ \E e \in DOMAIN SceneConfig(i) :
                   /\ SceneConfig(i)[e][1] = player.name
                   /\ player.lines = StableByNumber(EntriesOf(fs[SceneConfig(i)[e][2]]))

(* C4: the other setting of diagnostic mode gives the same outcome of        *)
(* construction and the same Scenes for the same files.                      *)

C4_DiagnosticModeOnlyAddsWarnings ==
    LET other == PlayPrepare(fs, script_filename, ~WHINGE_MODE) IN
    /\ pc = "recite" => other.ok /\ other.val = fragments
    /\ (pc = "exit" /\ code \notin {"SUCCESS", "BAD_COMMAND_LINE_ERROR"}) =>
           ~other.ok /\ other.code = code

MissingNumbersOfScene ==
    IF Owned(Cast) = {} THEN {}
    ELSE {n \in 0..SetMax(Owned(Cast)) : n \notin Owned(Cast)}

(* C5: in diagnostic mode the missing-line warnings of a Scene's recitation  *)
(* are the integers of [0, largest line number of the Scene] that no cast    *)
(* Performer owns, each once and in ascending order; an iteration whose      *)
(* line number exceeds expected_line_number reports that whole range and     *)
(* moves the counter past the line.                                          *)

C5_MissingWarningsAreTheUnownedNumbers ==
    [][/\ (DeliverStep /\ WHINGE_MODE) =>
            LET actual == PlayerNextLine(Cast[Speaker(Cast, Cast')])[1]
                new == SubSeq(err', Len(err) + 1, Len(err'))
            IN IF actual > expected_line_number
               THEN /\ NumbersOf(OfKind(new, "warn_missing_line"))
                          = [i \in 1..(actual - expected_line_number) |-> expected_line_number + i - 1]
                    /\ expected_line_number' = actual + 1
               ELSE OfKind(new, "warn_missing_line") = <<>>
       /\ (pc' = "separator" /\ WHINGE_MODE) =>
            NumbersOf(OfKind(SceneErr', "warn_missing_line")) = Ascending(MissingNumbersOfScene')
      ]_vars

C5_Witness ==
    /\ pc = "separator"
    /\ WHINGE_MODE
    /\ Cardinality(MissingNumbersOfScene) >= 2
    /\ Len(OfKind(SceneErr, "warn_missing_line")) >= 2
    /\ Len(spoken) >= 2

(* C6: in diagnostic mode a delivered line gets a duplicate-line-number      *)
(* warning exactly when its number is the number of a line delivered earlier *)
(* in the same recitation, and then expected_line_number stays as it is.     *)

C6_DuplicateWarningIffNumberAlreadyDelivered ==
    [][(DeliverStep /\ WHINGE_MODE) =>
            LET actual == PlayerNextLine(Cast[Speaker(Cast, Cast')])[1]
                new == OfKind(SubSeq(err', Len(err) + 1, Len(err')), "warn_duplicate_line")
            IN /\ (new # <<>>) <=> (actual \in Delivered(Cast))
               /\ new # <<>> => /\ NumbersOf(new) = <<actual>>
                                /\ expected_line_number' = expected_line_number
      ]_vars

C6_Witness ==
    /\ pc = "scene_loop"
    /\ WHINGE_MODE
    /\ OfKind(SceneErr, "warn_duplicate_line") # <<>>
    /\ OfKind(SceneErr, "warn_missing_line") # <<>>

\* the names of a cast that are absent from another cast, in cast order
AbsentFrom(players, others) ==
    SelectSeq(NamesOfCast(players), LAMBDA n : n \notin NameSet(others))

Written == SubSeq(out', Len(out) + 1, Len(out'))

EnterStep == pc = "play_loop" /\ pc' = "scene_begin"

ExitStep == pc = "play_exit" /\ pc' = "play_loop"

(* C7: enter(previous) announces an entrance for the members of this cast    *)
(* whose name is not in the previous Scene's cast, and for no one else, in   *)
(* this cast's enumeration order.                                            *)

C7_EnterAnnouncesOnlyNewNames ==
    [][(EnterStep /\ current_fragment_number > FIRST_SCENE_FRAGMENT) =>
            /\ TextsOf(OfKind(Written, "enter"))
                   = AbsentFrom(Cast, fragments[current_fragment_number].players)
            /\ OfKind(Written, "exit") = <<>>
      ]_vars

\* a later Scene has been entered that shares a name with the Scene before it
\* and brings at least two new names
C7_Witness ==
    /\ pc = "scene_begin"
    /\ current_fragment_number > FIRST_SCENE_FRAGMENT
    /\ NameSet(Cast) \cap NameSet(fragments[current_fragment_number].players) # {}
    /\ Len(AbsentFrom(Cast, fragments[current_fragment_number].players)) >= 2
    /\ out[Len(out)].k = "enter"

(* C8: exit(next) announces an exit for the members of this cast whose name  *)
(* is not in the next Scene's cast, and for no one else, in reverse cast     *)
(* order; exit_all announces an exit for every member in reverse cast order. *)

C8_ExitAnnouncesLeavingNamesInReverse ==
    [][ExitStep =>
            /\ TextsOf(OfKind(Written, "exit"))
                   = IF current_fragment_number = Len(fragments) - 1
                     THEN Reverse(NamesOfCast(Cast))
                     ELSE Reverse(AbsentFrom(Cast, fragments[current_fragment_number + 2].players))
            /\ Len(Written) = Len(OfKind(Written, "exit"))
      ]_vars

\* a Scene that is not the last has been left by at least two of its members
\* while another stays
C8_Witness ==
    /\ pc = "play_loop"
    /\ current_fragment_number \in 1..(Len(fragments) - 1)
    /\ LET left == fragments[current_fragment_number].players
           next == fragments[current_fragment_number + 1].players
       IN /\ Len(AbsentFrom(left, next)) >= 2
          /\ NameSet(left) \cap NameSet(next) # {}
    /\ out[Len(out)].k = "exit"

(* C9: Play::recite takes the Scenes once each in script order: the first    *)
(* is entered with enter_all and the others with enter(previous), the last   *)
(* is left with exit_all and the others with exit(next), the Scene number    *)
(* moves only forwards by one after an exit, and recite returns after the    *)
(* last Scene.                                                               *)

C9_ScenesVisitedOnceInOrder ==
    [][/\ EnterStep =>
            /\ current_fragment_number < Len(fragments)
            /\ TextsOf(OfKind(Written, "enter"))
                   = IF current_fragment_number = 0
                     THEN NamesOfCast(Cast)
                     ELSE AbsentFrom(Cast, fragments[current_fragment_number].players)
            /\ Written # <<>> =>
                   Written[1].k = IF current_fragment_number = 0 THEN "title"
                                  ELSE IF ThisScene.title = "" THEN "enter"
                                  ELSE "blank"
       /\ ExitStep =>
            /\ TextsOf(OfKind(Written, "exit"))
                   = IF current_fragment_number = Len(fragments) - 1
                     THEN Reverse(NamesOfCast(Cast))
                     ELSE Reverse(AbsentFrom(Cast, fragments[current_fragment_number + 2].players))
            /\ current_fragment_number' = current_fragment_number + 1
       /\ ~ExitStep => current_fragment_number' = current_fragment_number
       /\ pc' = "play_loop" => (pc = "recite" /\ current_fragment_number' = 0) \/ ExitStep
       /\ pc' = "scene_begin" => EnterStep
       /\ (pc = "play_loop" /\ pc' = "exit") => current_fragment_number = Len(fragments)
      ]_vars

C9_Witness ==
    /\ pc = "exit"
    /\ code = "SUCCESS"
    /\ Len(fragments) >= 3
    /\ \E i \in 1..(Len(fragments) - 1) :
           NameSet(fragments[i].players) \ NameSet(fragments[i + 1].players) # {}
              /\ NameSet(fragments[i].players) \cap NameSet(fragments[i + 1].players) # {}

ScriptLines == fs[script_filename].lines

\* the script names no scene configuration file
NoSceneReference == \A i \in DOMAIN ScriptLines : ScriptLines[i] = <<>> \/ ScriptLines[i][1] = "[scene]"

PrepareReturned == pc \notin {"main", "prepare"} /\ code # "BAD_COMMAND_LINE_ERROR"

PrepareFailed == pc = "exit" /\ code \notin {"SUCCESS", "BAD_COMMAND_LINE_ERROR"}

(* C10: Play::prepare fails when the script file has no lines, when it       *)
(* yields no Scene (only blank lines and title markers), and when the first  *)
(* Scene has a blank title; when it succeeds there is at least one Scene and *)
(* the first Scene's title is not blank.                                     *)

C10_PrepareRequiresATitledFirstScene ==
    PrepareReturned =>
        /\ (fs[script_filename].st = "ok" /\ NoSceneReference)
               => PrepareFailed /\ code = "SCRIPT_PARSING_ERROR"
        /\ ~PrepareFailed => /\ Len(fragments) >= 1
                             /\ fragments[1].title # ""
                             /\ HasSceneTitle(fragments[1])

\* the script names a Scene and construction failed for a script error
C10_Witness ==
    /\ PrepareFailed
    /\ code = "SCRIPT_PARSING_ERROR"
    /\ fs[script_filename].st = "ok"
    /\ ~NoSceneReference
    /\ \E i \in DOMAIN ScriptLines : Len(ScriptLines[i]) >= 2 /\ ScriptLines[i][1] = "[scene]"

\* the file cannot be opened or read
Unreadable(f) == f \notin DOMAIN fs \/ fs[f].st # "ok"

\* the indices of the script lines that name a scene configuration file
ReferenceLines == {i \in DOMAIN ScriptLines : ScriptLines[i] # <<>> /\ ScriptLines[i][1] # "[scene]"}

\* the scene configuration files the script names
ReferencedConfigs == {ScriptLines[i][1] : i \in ReferenceLines}

\* the dialogue files a readable scene configuration file names
ReferencedParts(c) ==
    {fs[c].lines[i][2] : i \in {j \in DOMAIN fs[c].lines : Len(fs[c].lines[j]) >= 2}}

\* a scene configuration file that is readable together with all its parts
SceneReadable(c) ==
    /\ ~Unreadable(c)
    /\ \A d \in ReferencedParts(c) : ~Unreadable(d)

SomeFileUnreadable ==
    \/ Unreadable(script_filename)
    \/ \E c \in ReferencedConfigs : ~SceneReadable(c)

\* what recitation prints: titles, entrances, headers, dialogue, exits
Narration(events) ==
    SelectSeq(events, LAMBDA e : e.k \in {"title", "enter", "exit", "speaker", "line", "blank"})

(* C11: when assembly fails, for the script file, for the configuration file *)
(* of any Scene or for the dialogue file of any Performer, the run ends      *)
(* with an error code and no title, entrance, dialogue line or exit printed. *)

C11_FailedAssemblyPrintsNoNarration ==
    PrepareReturned =>
        /\ SomeFileUnreadable => PrepareFailed
        /\ PrepareFailed => Narration(out) = <<>>

\* the first Scene of the script is readable and a later file is not
C11_Witness ==
    /\ PrepareFailed
    /\ code = "FAILED_TO_OPEN_FILE"
    /\ ~Unreadable(script_filename)
    /\ Cardinality(ReferenceLines) >= 2
    /\ \E i \in ReferenceLines :
           /\ \A j \in ReferenceLines : i <= j
           /\ SceneReadable(ScriptLines[i][1])
           /\ fs[ScriptLines[i][1]].lines # <<>>

(* C12: after a Scene's cast is built from its configuration file, no two    *)
(* Performers of that cast have the same name, also when the file lists the  *)
(* same character name on two lines.                                         *)

C12_CastNamesAreUnique ==
    \A s \in DOMAIN fragments :
        \A i, j \in DOMAIN fragments[s].players :
            fragments[s].players[i].name = fragments[s].players[j].name => i = j

RECURSIVE SumOfIndex(_)
SumOfIndex(players) ==
    IF players = <<>> THEN 0 ELSE Head(players).index + SumOfIndex(Tail(players))

\* the entries the cast has not delivered yet
Remaining(players) == SumOfLines(players) - SumOfIndex(players)

(* C13: a Scene's recitation terminates for every finite cast: the number  *)
(* of entries not yet delivered is never negative, it is the cast's number   *)
(* of entries less the iterations made so far, an iteration of the loop      *)
(* advances the cursor of exactly one Performer by one, leaves the others    *)
(* alone and lowers that number by one, and the iteration that finds it at   *)
(* zero (the first one for a cast without lines) leaves the loop.            *)

C13_ReciteTerminates ==
    /\ [](pc \in {"scene_loop", "separator"} =>
            /\ Remaining(Cast) >= 0
            /\ Len(spoken) + Remaining(Cast) = SumOfLines(Cast))
    /\ [][pc = "scene_loop" =>
            IF Remaining(Cast) = 0
            THEN pc' = "separator" /\ Cast' = Cast
            ELSE /\ pc' = "scene_loop"
                 /\ Cardinality({i \in DOMAIN Cast : Cast'[i] # Cast[i]}) = 1
                 /\ \A i \in DOMAIN Cast :
                        Cast'[i] # Cast[i] => Cast'[i] = [Cast[i] EXCEPT !.index = @ + 1]
                 /\ Remaining(Cast') = Remaining(Cast) - 1]_vars

\* a recitation of three Performers, each with lines, has come to its end
C13_Witness ==
    /\ pc = "separator"
    /\ Len(Cast) = 3
    /\ \A i \in DOMAIN Cast : Cast[i].lines # <<>> /\ Cast[i].index = Len(Cast[i].lines)
    /\ Len(spoken) = SumOfLines(Cast)

\* the cast of the running Scene as process_config builds it, before the sort
ConfigOrderCast ==
    SceneProcessConfig(fs, SceneConfig(current_fragment_number + 1), WHINGE_MODE,
                       Ok(<<>>, <<>>, <<>>)).val

\* no line number is owned by two different Performers
NoSharedNumber(players) ==
    \A i, j \in DOMAIN players :
        i # j => {players[i].lines[k][1] : k \in DOMAIN players[i].lines}
                     \cap {players[j].lines[k][1] : k \in DOMAIN players[j].lines} = {}

(* C14 as stated: for every cast, the headers and dialogue lines that recite *)
(* prints for the sorted cast are those it prints for the cast left in       *)
(* configuration order.                                                      *)

C14_SortHasNoEffectOnRecitation ==
    pc = "separator" => SceneOut = SceneReciteOutput(ConfigOrderCast, "")

(* C14 amended: when no line number is owned by two different Performers of  *)
(* the cast, the headers and dialogue lines that recite prints for the       *)
(* sorted cast are those it prints for the cast left in configuration order. *)

C14_SortHasNoEffectWithoutSharedNumbers ==
    pc = "separator" /\ NoSharedNumber(ConfigOrderCast) =>
        SceneOut = SceneReciteOutput(ConfigOrderCast, "")

\* the sort has moved a Performer and the Scene has been recited
C14_Witness ==
    /\ pc = "separator"
    /\ NoSharedNumber(ConfigOrderCast)
    /\ NamesOfCast(Cast) # NamesOfCast(ConfigOrderCast)
    /\ \A i \in DOMAIN Cast : Cast[i].lines # <<>>
    /\ Len(OfKind(SceneOut, "speaker")) >= 3

(* C15: for every Scene, Play::recite emits the title and the entrances,     *)
(* then the recited dialogue, then the exit announcements, and the blank     *)
(* separator line comes after them, closing the Scene's narration.           *)

C15_SeparatorFollowsTheExits ==
    pc = "play_loop" /\ current_fragment_number > FIRST_SCENE_FRAGMENT =>
        /\ SceneOut # <<>>
        /\ SceneOut[Len(SceneOut)] = Ev("blank", "", 0)
        /\ \A i \in DOMAIN SceneOut : SceneOut[i].k \in {"blank", "speaker", "line", "exit"}
        /\ \A i, j \in DOMAIN SceneOut :
               i < j /\ j < Len(SceneOut) /\ SceneOut[i].k = "exit" => SceneOut[j].k = "exit"

\* the script lines that are neither blank nor a marker without a title
KeptScriptLines == SelectSeq(ScriptLines, LAMBDA l : l # <<>> /\ l # <<"[scene]">>)

\* the script configuration when a marker without a title adds no entry
ConfigWithoutBareMarkers ==
    [i \in DOMAIN KeptScriptLines |->
        IF KeptScriptLines[i][1] = "[scene]"
        THEN <<TRUE, JoinTokens(Tail(KeptScriptLines[i]))>>
        ELSE <<FALSE, KeptScriptLines[i][1]>>]

TitlesOf(frags) == [s \in DOMAIN frags |-> frags[s].title]

(* C16: a [scene] marker with no following tokens is dropped in every mode:  *)
(* it adds no entry to the script configuration, so the Scenes get the       *)
(* titles they would get if the line were not in the script.                 *)

C16_BareMarkerAddsNoEntry ==
    PrepareReturned /\ ~Unreadable(script_filename) =>
        /\ PlayReadConfig(fs, script_filename, WHINGE_MODE).val = ConfigWithoutBareMarkers
        /\ pc = "recite" =>
               TitlesOf(fragments)
                   = TitlesOf(PlayProcessConfig(fs, ConfigWithoutBareMarkers, "", WHINGE_MODE,
                                                Ok(<<>>, <<>>, <<>>)).val)

\* the name of the Performer who delivered the k-th line of the running Scene
NameOfSpoken(history, k) == Cast[history[k][1] + 1].name

\* where the speaker headers printed before the running Scene's recite are
HeadersBefore == {i \in 1..mark.out : out[i].k = "speaker"}

(* C17: within a Scene's recitation a header (blank line, name) is printed   *)
(* before a dialogue line exactly when the line is the first delivered in    *)
(* the Scene or its Performer's name differs from the name of the Performer  *)
(* who delivered the line before; otherwise the line is printed alone.  The  *)
(* speaker token is empty when a Scene's recitation begins.                  *)

C17_HeaderExactlyOnSpeakerChange ==
    /\ [](pc = "scene_loop" /\ spoken = <<>> => current_speaker = "")
    /\ [][DeliverStep =>
            LET k == Len(spoken')
                name == NameOfSpoken(spoken', k)
            IN IF spoken = <<>> \/ NameOfSpoken(spoken, k - 1) # name
               THEN /\ Len(Written) = 3
                    /\ Written[1] = Ev("blank", "", 0)
                    /\ Written[2] = Ev("speaker", name, 0)
                    /\ Written[3].k = "line"
               ELSE /\ Len(Written) = 1
                    /\ Written[1].k = "line"]_vars

\* a later Scene opens with the name that closed the Scene before, under a
\* header, and has gone on with a line that needed none
C17_Witness ==
    /\ pc = "scene_loop"
    /\ current_fragment_number > FIRST_SCENE_FRAGMENT
    /\ HeadersBefore # {}
    /\ Len(spoken) >= 2
    /\ SceneOut[2] = Ev("speaker", out[SetMax(HeadersBefore)].s, 0)
    /\ Len(OfKind(SceneOut, "speaker")) < Len(spoken)

\* the file can be read and has no lines
EmptyFile(f) == ~Unreadable(f) /\ fs[f].lines = <<>>

SomeFileEmpty ==
    \/ EmptyFile(script_filename)
    \/ \E c \in ReferencedConfigs :
           \/ EmptyFile(c)
           \/ ~Unreadable(c) /\ \E d \in ReferencedParts(c) : EmptyFile(d)

(* C18: an empty file is fatal at every level of assembly: an empty script   *)
(* file, an empty scene configuration file and an empty dialogue file each   *)
(* make construction fail.                                                   *)

C18_EmptyFileFailsConstruction ==
    PrepareReturned /\ SomeFileEmpty => PrepareFailed

\* the script configuration that Play::read_config has built
ScriptConfig == PlayReadConfig(fs, script_filename, WHINGE_MODE).val

\* where the configuration-file references are in the script configuration
References == {i \in DOMAIN ScriptConfig : ~ScriptConfig[i][1]}

(* C19: Play::process_config makes one Scene for each configuration-file     *)
(* reference, in script order; a Scene's title is the text of the marker     *)
(* that comes immediately before its reference (the latest of several), and  *)
(* is empty when the entry before its reference is another reference, the    *)
(* pending title having been cleared when that Scene was made.               *)

C19_OneSceneForEachReference ==
    pc = "recite" =>
        /\ Len(fragments) = Cardinality(References)
        /\ \A i \in References :
               LET s == Cardinality({j \in References : j <= i}) IN
               /\ fragments[s].title
                      = (IF i > 1 /\ ScriptConfig[i - 1][1] THEN ScriptConfig[i - 1][2] ELSE "")
               /\ fragments[s].players
                      = ScenePrepare(fs, NewSceneFragment(""), ScriptConfig[i][2], WHINGE_MODE).val.players

\* two markers, then two references: the later marker titles the first Scene
\* and the second Scene has no title
C19_Witness ==
    /\ pc = "recite"
    /\ Len(fragments) >= 2
    /\ Len(ScriptConfig) >= 4
    /\ ScriptConfig[1][1] /\ ScriptConfig[2][1] /\ ScriptConfig[1][2] # ScriptConfig[2][2]
    /\ fragments[1].title = ScriptConfig[2][2]
    /\ fragments[2].title = ""
    /\ NamesOfCast(fragments[1].players) # NamesOfCast(fragments[2].players)

\* the Performer that the calls are made on
Performer == fragments[1].players[1]

LastCall == calls'[Len(calls')]

SpeakCalls == Cardinality({i \in DOMAIN calls : calls[i].op = "speak"})

(* C20: through any sequence of next_line and speak calls a Performer's      *)
(* cursor never decreases and never exceeds the number of entries, and the   *)
(* entries stay as they are; speak on an exhausted Performer leaves the      *)
(* cursor, the speaker token and the output unchanged, speak on a Performer  *)
(* with a pending line advances the cursor by one; next_line changes no      *)
(* state and returns the pending line number, or nothing when exhausted.     *)

C20_CursorStaysWithinEntries ==
    /\ [](Performer.index >= 0 /\ Performer.index <= Len(Performer.lines))
    /\ [][calls' # calls =>
            /\ Performer'.index >= Performer.index
            /\ Performer'.lines = Performer.lines
            /\ Performer'.name = Performer.name
            /\ LastCall.op = "speak" =>
                   IF Performer.index = Len(Performer.lines)
                   THEN UNCHANGED <<fragments, current_speaker, out>>
                   ELSE Performer'.index = Performer.index + 1
            /\ LastCall.op = "next_line" =>
                   /\ UNCHANGED <<fragments, current_speaker, out>>
                   /\ LastCall.ret = IF Performer.index < Len(Performer.lines)
                                     THEN <<Performer.lines[Performer.index + 1][1]>>
                                     ELSE <<>>]_vars

\* next_line and speak have been called, the last call a speak made after the
\* Performer's last entry was delivered
C20_Witness ==
    /\ pc = "player"
    /\ calls # <<>>
    /\ calls[Len(calls)].op = "speak"
    /\ Len(Performer.lines) >= 1
    /\ Performer.index = Len(Performer.lines)
    /\ SpeakCalls > Len(Performer.lines)
    /\ SpeakCalls < Len(calls)

\* the names on stage after the Enter and Exit announcements of the events
RECURSIVE OnStage(_)
OnStage(events) ==
    IF events = <<>> THEN {}
    ELSE LET e == events[Len(events)]
             before == OnStage(SubSeq(events, 1, Len(events) - 1))
         IN IF e.k = "enter" THEN before \cup {e.s}
            ELSE IF e.k = "exit" THEN before \ {e.s}
            ELSE before

\* no Enter for a name on stage and no Exit for a name off stage
StageConsistent(events) ==
    \A i \in DOMAIN events :
        /\ events[i].k = "enter" => events[i].s \notin OnStage(SubSeq(events, 1, i - 1))
        /\ events[i].k = "exit" => events[i].s \in OnStage(SubSeq(events, 1, i - 1))

(* C21: following the Enter and Exit announcements over the whole play, no   *)
(* Enter is announced for a name on stage and no Exit for a name off stage,  *)
(* during a Scene's recitation the names on stage are the names of that      *)
(* Scene's cast, and after the exits of the last Scene the stage is empty.   *)

C21_StagePresenceIsConsistent ==
    /\ StageConsistent(out)
    /\ pc \in {"scene_begin", "scene_loop", "separator"} => OnStage(out) = NameSet(Cast)
    /\ pc = "exit" /\ code = "SUCCESS" => OnStage(out) = {}

\* the line numbers delivered so far in the running Scene, in order
SpokenNumbers == [k \in DOMAIN spoken |-> spoken[k][2]]

\* the numbers of the lines of a dialogue file, in file order
FileNumbers(f) == [k \in DOMAIN EntriesOf(fs[f]) |-> EntriesOf(fs[f])[k][1]]

(* C22: within a Scene's recitation the line numbers of the delivered lines  *)
(* never go down from one line to the next, whatever the order and the       *)
(* repetitions of the numbers in the dialogue files.                        *)

C22_DeliveredNumbersNeverGoDown ==
    pc \in {"scene_loop", "separator"} =>
        \A k \in 1..(Len(spoken) - 1) : SpokenNumbers[k] <= SpokenNumbers[k + 1]

\* a Scene recited from a dialogue file whose numbers go down and repeat
C22_Witness ==
    /\ pc = "separator"
    /\ \E f \in {"d1", "d2"} :
           /\ \E e \in DOMAIN SceneConfig(current_fragment_number + 1) :
                  SceneConfig(current_fragment_number + 1)[e][2] = f
           /\ \E k \in 1..(Len(FileNumbers(f)) - 1) : FileNumbers(f)[k] > FileNumbers(f)[k + 1]
           /\ \E k \in 1..(Len(FileNumbers(f)) - 1) : FileNumbers(f)[k] = FileNumbers(f)[k + 1]
    /\ \E k \in 1..(Len(spoken) - 1) : SpokenNumbers[k] = SpokenNumbers[k + 1]
    /\ \E k \in 1..(Len(spoken) - 1) : SpokenNumbers[k] < SpokenNumbers[k + 1]

(* C23: at the end of every iteration of a Scene's recitation loop           *)
(* expected_line_number is one more than the largest line number delivered   *)
(* so far in the Scene, and 0 before any line is delivered; it is set to 0   *)
(* when a Scene's recitation begins and does not go down within a Scene.     *)

C23_ExpectedIsOnePastTheLargestDelivered ==
    /\ [](pc \in {"scene_loop", "separator"} =>
            expected_line_number
                = IF spoken = <<>> THEN 0
                  ELSE 1 + SetMax({spoken[k][2] : k \in DOMAIN spoken}))
    /\ [][/\ pc = "scene_begin" => expected_line_number' = 0
          /\ pc = "scene_loop" => expected_line_number' >= expected_line_number]_vars

\* a later Scene that began after a gap and delivered a number twice
C23_Witness ==
    /\ pc = "separator"
    /\ current_fragment_number > FIRST_SCENE_FRAGMENT
    /\ Len(spoken) >= 3
    /\ spoken[1][2] > 0
    /\ \E k \in 1..(Len(spoken) - 1) : spoken[k][2] = spoken[k + 1][2]
    /\ expected_line_number >= 3

====
